---- MODULE Spec2Model ----
(***************************************************************************)
(* Model of the CEPROC front end: the App component's pipeline state       *)
(* (view, error, sessionData), its async stage handlers, the reset         *)
(* handler, and the part of ResultPage that feeds handleModulo3b.          *)
(*                                                                         *)
(* Every handler `async () => { setView; setError; await fetch; ... }` is  *)
(* two atomic steps: the synchronous prologue up to the await (one React   *)
(* batch), and the continuation that runs when the fetch settles.  The     *)
(* call in flight between the two is an element of `calls`.                *)
(* A handler can run only when the element that carries it is rendered,    *)
(* so each action's guard is the render condition of its button.           *)
(***************************************************************************)
EXTENDS Integers, Sequences, FiniteSets

VARIABLES
    view,        \* App: useState('upload')
    error,       \* App: useState('')
    sessionData, \* App: useState({...})
    mode,        \* UploadPage: useState('audio')
    upFile,      \* UploadPage: useState(null) (`file`, the selected audio file)
    upText,      \* UploadPage: useState('') (`text`, the pasted transcription)
    propostas,   \* ResultPage: useState('') (the review3a textarea)
    activeTab,   \* ResultPage: useState('bpmn_to_be') (the tab of the final view)
    downloads,   \* ResultPage: download fetches issued and not yet settled
    calls,       \* fetches issued and not yet settled, in issue order
    written,     \* history: the success body each stage returned since the last reset
    lastEvent,   \* history: the handler step that produced this state, and the
                 \* response it handled
    uiEvent,     \* history: what the step did inside a component, if it was one
                 \* of a component's own
    messages,    \* ChatPanel: useState([])
    input,       \* ChatPanel: useState('')
    loading,     \* ChatPanel: useState(false)
    isOpen,      \* ChatPanel: useState(false)
    chatCalls    \* ChatPanel: fetches of /api/chat issued and not yet settled

vars == <<view, error, sessionData, mode, upFile, upText, propostas, activeTab,
          downloads, calls, written, lastEvent, uiEvent,
          messages, input, loading, isOpen, chatCalls>>

\* The state of ChatPanel, a component App does not render.
chatVars == <<messages, input, loading, isOpen, chatCalls>>

\* The state of App, UploadPage and ResultPage.
appVars == <<view, error, sessionData, mode, upFile, upText, propostas, activeTab,
             downloads, calls, written, lastEvent>>

-----------------------------------------------------------------------------
(* Values *)

\* JavaScript `undefined` (a property missing from a parsed JSON body).
Undef == "undefined"

\* JavaScript `null`.
Null == "null"

\* Longest text typed into a textarea.
MaxTextLen == 2

\* Characters a typed text is made of: a whitespace and a letter.
Chars == {" ", "a"}

\* Texts are sequences of characters, so that trim() can be computed.
Texts == UNION {[1..n -> Chars] : n \in 0..MaxTextLen}

Fields ==
    {"relatorio_descoberta", "bpmn_xml_as_is", "bpmn_validation_as_is",
     "consultoria", "propostas_aprovadas", "bpmn_xml_to_be",
     "bpmn_validation_to_be", "pop_texto", "aviso_bizagi"}

\* The initial value of sessionData: useState({...}).
InitialSessionData ==
    [relatorio_descoberta  |-> "",
     bpmn_xml_as_is        |-> "",
     bpmn_validation_as_is |-> Null,
     consultoria           |-> "",
     propostas_aprovadas   |-> <<>>,
     bpmn_xml_to_be        |-> "",
     bpmn_validation_to_be |-> Null,
     pop_texto             |-> "",
     aviso_bizagi          |-> ""]

\* A reset literal that forgets one field (it keeps the stored notice).
ResetSessionData_keepsNotice ==
    [relatorio_descoberta  |-> "",
     bpmn_xml_as_is        |-> "",
     bpmn_validation_as_is |-> Null,
     consultoria           |-> "",
     propostas_aprovadas   |-> <<>>,
     bpmn_xml_to_be        |-> "",
     bpmn_validation_to_be |-> Null,
     pop_texto             |-> "",
     aviso_bizagi          |-> sessionData.aviso_bizagi]

\* The object handleReset passes to setSessionData.
ResetSessionData ==
    [relatorio_descoberta  |-> "",
     bpmn_xml_as_is        |-> "",
     bpmn_validation_as_is |-> Null,
     consultoria           |-> "",
     propostas_aprovadas   |-> <<>>,
     bpmn_xml_to_be        |-> "",
     bpmn_validation_to_be |-> Null,
     pop_texto             |-> "",
     aviso_bizagi          |-> ""]

\* An object with no properties ({}).
EmptyObj == [k \in {} |-> ""]

\* obj.k in JavaScript: undefined when the property is missing.
Get(obj, k) == IF k \in DOMAIN obj THEN obj[k] ELSE Undef

\* JavaScript truthiness of a string-or-undefined value (the `||` of the handlers).
Truthy(v) == v # Undef /\ v # "" /\ v # Null

Stages == {"1", "2", "3a", "3b", "4"}

ProcessingViews == {"modulo1", "modulo2", "modulo3a", "modulo3b", "modulo4"}
ReviewViews == {"review1", "review2", "review3a", "review3b"}
Views == {"upload", "final", "error"} \cup ProcessingViews \cup ReviewViews

\* The 11 steps of the flow, in order.
Flow ==
    <<"upload", "modulo1", "review1", "modulo2", "review2", "modulo3a",
      "review3a", "modulo3b", "review3b", "modulo4", "final">>

-----------------------------------------------------------------------------
(* String helpers *)

IsSpace(c) == c = " "

RECURSIVE TrimStart(_)
TrimStart(s) ==
    IF s # <<>> /\ IsSpace(Head(s)) THEN TrimStart(Tail(s)) ELSE s

RECURSIVE TrimEnd(_)
TrimEnd(s) ==
    IF s # <<>> /\ IsSpace(s[Len(s)]) THEN TrimEnd(SubSeq(s, 1, Len(s) - 1)) ELSE s

\* String.prototype.trim
Trim(s) == TrimEnd(TrimStart(s))

-----------------------------------------------------------------------------
(* The environment: what a stage's endpoint can answer *)

\* Success bodies (res.ok, parsed JSON) of each stage.  A body may lack a field.
SuccessBodies(stage) ==
    CASE stage = "1"  -> {[relatorio_descoberta |-> "r1"],
                          [relatorio_descoberta |-> "r2"],
                          EmptyObj}
      [] stage = "2"  -> {[bpmn_xml_as_is |-> "x1", bpmn_validation |-> "v1",
                           aviso_bizagi |-> "w1"],
                          [bpmn_xml_as_is |-> "x1", bpmn_validation |-> "v1"],
                          EmptyObj}
      [] stage = "3a" -> {[consultoria |-> "c1"], EmptyObj}
      [] stage = "3b" -> {[bpmn_xml_to_be |-> "y1", bpmn_validation |-> "v2",
                           aviso_bizagi |-> "w2"],
                          [bpmn_xml_to_be |-> "y1", bpmn_validation |-> "v2"]}
      [] stage = "4"  -> {[pop_texto |-> "p1"], EmptyObj}

\* Bodies of a non-success response that parse as JSON.
ErrorBodies == {[detail |-> "audio ilegivel"], [detail |-> ""], EmptyObj}

\* e.message when res.json() rejects (the body is no JSON).
JsonParseMessage == "Unexpected token < in JSON at position 0"

\* e.message when fetch itself rejects (transport failure).
NetworkMessage == "Failed to fetch"

\* How a fetch can settle: kind "ok" / "notOk" / "network"; parsed says
\* whether res.json() resolves, body is what it resolves to.
Outcomes(stage) ==
    {[kind |-> "ok", parsed |-> TRUE, body |-> b] : b \in SuccessBodies(stage)}
    \cup {[kind |-> "ok", parsed |-> FALSE, body |-> EmptyObj]}
    \cup {[kind |-> "notOk", parsed |-> TRUE, body |-> b] : b \in ErrorBodies}
    \cup {[kind |-> "notOk", parsed |-> FALSE, body |-> EmptyObj]}
    \cup {[kind |-> "network", parsed |-> FALSE, body |-> EmptyObj]}

-----------------------------------------------------------------------------
(* App: state and helpers *)
\* A merge into the initial record instead of the previous one:
\* setSessionData({...initial, ...updates}).
updateSession_fromInitial(prev, updates) ==
    [f \in DOMAIN prev \cup DOMAIN updates |->
        IF f \in DOMAIN updates THEN updates[f] ELSE InitialSessionData[f]]

\* const updateSession = (updates) => setSessionData(prev => ({...prev, ...updates}))
updateSession(prev, updates) ==
    [f \in DOMAIN prev \cup DOMAIN updates |->
        IF f \in DOMAIN updates THEN updates[f] ELSE prev[f]]

\* The characters of a view name, or of the literal a view name is tested
\* against.
Letters(s) ==
    CASE s = "upload"   -> <<"u", "p", "l", "o", "a", "d">>
      [] s = "modulo1"  -> <<"m", "o", "d", "u", "l", "o", "1">>
      [] s = "modulo2"  -> <<"m", "o", "d", "u", "l", "o", "2">>
      [] s = "modulo3"  -> <<"m", "o", "d", "u", "l", "o", "3">>
      [] s = "modulo3a" -> <<"m", "o", "d", "u", "l", "o", "3", "a">>
      [] s = "modulo3b" -> <<"m", "o", "d", "u", "l", "o", "3", "b">>
      [] s = "modulo4"  -> <<"m", "o", "d", "u", "l", "o", "4">>
      [] s = "review"   -> <<"r", "e", "v", "i", "e", "w">>
      [] s = "review1"  -> <<"r", "e", "v", "i", "e", "w", "1">>
      [] s = "review2"  -> <<"r", "e", "v", "i", "e", "w", "2">>
      [] s = "review3a" -> <<"r", "e", "v", "i", "e", "w", "3", "a">>
      [] s = "review3b" -> <<"r", "e", "v", "i", "e", "w", "3", "b">>
      [] s = "final"    -> <<"f", "i", "n", "a", "l">>
      [] s = "error"    -> <<"e", "r", "r", "o", "r">>

\* String.prototype.startsWith: the first characters of s are those of prefix.
startsWith(s, prefix) ==
    /\ Len(Letters(prefix)) <= Len(Letters(s))
    /\ SubSeq(Letters(s), 1, Len(Letters(prefix))) = Letters(prefix)

\* view.startsWith('review')
StartsWithReview(v) == startsWith(v, "review")

\* const isProcessing = [...].includes(view): StepProgress is what is rendered.
isProcessing == view \in ProcessingViews

\* getActiveStep with the third test written for the two review3 views only:
\* modulo3a and modulo3b fall through to -1.
getActiveStep_missesModulo3(v) ==
    IF startsWith(v, "modulo1") \/ v = "review1" THEN 0
    ELSE IF startsWith(v, "modulo2") \/ v = "review2" THEN 1
    ELSE IF v = "review3a" \/ v = "review3b" THEN 2
    ELSE IF startsWith(v, "modulo4") \/ v = "final" THEN 3
    ELSE -1

\* getActiveStep, of the view it reads from the closure.
getActiveStep(v) ==
    IF startsWith(v, "modulo1") \/ v = "review1" THEN 0
    ELSE IF startsWith(v, "modulo2") \/ v = "review2" THEN 1
    ELSE IF startsWith(v, "modulo3") \/ v = "review3a" \/ v = "review3b" THEN 2
    ELSE IF startsWith(v, "modulo4") \/ v = "final" THEN 3
    ELSE -1

\* The upload page left on screen while stage 1 runs.
ShowsUploadPage_whileProcessing == view \in {"upload", "modulo1"}

\* {view === 'upload' && <UploadPage .../>}
ShowsUploadPage == view = "upload"

\* {(view.startsWith('review') || view === 'final') && <ResultPage .../>}
ShowsResultPage(v) == StartsWithReview(v) \/ v = "final"

\* {view === 'error' && ... <button onClick={handleReset}>}
ShowsError == view = "error"

\* No step inside ResultPage or UploadPage.
NoUi == [op |-> "none", outcome |-> "none"]

\* UploadPage's `file` while it is null: no file selected. (A file is the
\* sequence of the pieces of its name, which is never empty.)
NoFile == <<>>

\* {isProcessing && <StepProgress .../>}
ShowsStepProgress == isProcessing

\* The processingLabel expression with 'modulo3' in place of 'modulo3b': the
\* label of that view falls through to ''.
processingLabel_missesModulo3b(v) ==
    IF v = "modulo1" THEN "Analisando o áudio/texto e gerando Relatório de Descoberta..."
    ELSE IF v = "modulo2" THEN "Convertendo fluxo para BPMN XML (AS-IS)..."
    ELSE IF v = "modulo3a" THEN "Executando consultoria Lean..."
    ELSE IF v = "modulo3" THEN "Gerando novo fluxo BPMN (TO-BE)..."
    ELSE IF v = "modulo4" THEN "Gerando Procedimento Operacional Padrão..."
    ELSE ""

\* The processingLabel prop App passes to StepProgress.
processingLabel(v) ==
    IF v = "modulo1" THEN "Analisando o áudio/texto e gerando Relatório de Descoberta..."
    ELSE IF v = "modulo2" THEN "Convertendo fluxo para BPMN XML (AS-IS)..."
    ELSE IF v = "modulo3a" THEN "Executando consultoria Lean..."
    ELSE IF v = "modulo3b" THEN "Gerando novo fluxo BPMN (TO-BE)..."
    ELSE IF v = "modulo4" THEN "Gerando Procedimento Operacional Padrão..."
    ELSE ""

\* ResultPage returns markup for the views it has a branch for, null otherwise.
ResultPageRenders(v) ==
    v = "review1" \/ v = "review2" \/ v = "review3a" \/ v = "review3b" \/ v = "final"

\* What App's <main> shows: one entry per conditional block that renders.
Rendered ==
    {m \in {"upload", "progress", "result", "error"} :
        \/ m = "upload" /\ ShowsUploadPage
        \/ m = "progress" /\ ShowsStepProgress
        \/ m = "result" /\ ShowsResultPage(view) /\ ResultPageRenders(view)
        \/ m = "error" /\ ShowsError}

\* What a step of App does to ResultPage and UploadPage: each is unmounted
\* whenever App stops rendering it, and its useState values start again from
\* their initial values at the next mount; downloads in flight go on.
KeepWhileMounted(newView) ==
    /\ propostas' = IF ShowsResultPage(view) /\ ShowsResultPage(newView)
                    THEN propostas ELSE <<>>
    /\ activeTab' = IF ShowsResultPage(view) /\ ShowsResultPage(newView)
                    THEN activeTab ELSE "bpmn_to_be"
    /\ mode' = IF ShowsUploadPage /\ newView = "upload" THEN mode ELSE "audio"
    /\ upFile' = IF ShowsUploadPage /\ newView = "upload" THEN upFile ELSE NoFile
    /\ upText' = IF ShowsUploadPage /\ newView = "upload" THEN upText ELSE <<>>
    /\ uiEvent' = NoUi
    /\ UNCHANGED downloads
    /\ UNCHANGED chatVars

NoCall == [stage |-> "none"]
NoResponse == [kind |-> "none", parsed |-> FALSE, body |-> EmptyObj]
NoWritten == [s \in Stages |-> EmptyObj]

\* History of a prologue: the fetch now in flight, with the request it carries,
\* the record as it stands once the prologue's updates are merged, and what
\* the review3a textarea held when the handler was called.
Fetch(op, stage, req, snap, upd) ==
    LET c == [op |-> op, stage |-> stage, req |-> req, snap |-> snap,
              typed |-> propostas]
    IN  /\ calls' = Append(calls, c)
        /\ lastEvent' = [op |-> op, from |-> view, call |-> c, upd |-> upd,
                         outcome |-> "issued", response |-> NoResponse]

\* Removing the i-th element of a sequence.
RemoveAt(s, i) == SubSeq(s, 1, i - 1) \o SubSeq(s, i + 1, Len(s))

\* Whether the try block throws for this outcome: fetch rejects, or the
\* response is not ok (the handler throws, or res.json() rejects first), or
\* the ok response's res.json() rejects.
Throws(o) == o.kind # "ok" \/ ~o.parsed

\* e.message in the catch block.
Message(o, defaultMessage) ==
    IF o.kind = "network" THEN NetworkMessage
    ELSE IF ~o.parsed THEN JsonParseMessage
    ELSE IF Truthy(Get(o.body, "detail")) THEN o.body.detail
    ELSE defaultMessage

\* A continuation that merges the body before it looks at res.ok, so a
\* failure leaves a partial merge behind.
Settle_mergesBeforeCheck(i, o, updates, reviewView, defaultMessage) ==
    /\ calls' = RemoveAt(calls, i)
    /\ KeepWhileMounted(IF Throws(o) THEN "error" ELSE reviewView)
    /\ sessionData' = updateSession(sessionData, updates)
    /\ IF Throws(o)
       THEN /\ error' = Message(o, defaultMessage)
            /\ view' = "error"
            /\ UNCHANGED written
            /\ lastEvent' = [op |-> calls[i].op, from |-> view, call |-> calls[i],
                             upd |-> EmptyObj, outcome |-> "failed", response |-> o]
       ELSE /\ view' = reviewView
            /\ written' = [written EXCEPT ![calls[i].stage] = o.body]
            /\ UNCHANGED error
            /\ lastEvent' = [op |-> calls[i].op, from |-> view, call |-> calls[i],
                             upd |-> updates, outcome |-> "succeeded", response |-> o]

\* A continuation that retries: on a failure it sends the same request again
\* and stays in the processing view.
Settle_retriesOnFailure(i, o, updates, reviewView, defaultMessage) ==
    /\ KeepWhileMounted(IF Throws(o) THEN view ELSE reviewView)
    /\ IF Throws(o)
       THEN /\ calls' = Append(RemoveAt(calls, i), calls[i])
            /\ UNCHANGED <<view, error, sessionData, written>>
            /\ lastEvent' = [op |-> calls[i].op, from |-> view, call |-> calls[i],
                             upd |-> EmptyObj, outcome |-> "failed", response |-> o]
       ELSE /\ calls' = RemoveAt(calls, i)
            /\ sessionData' = updateSession(sessionData, updates)
            /\ view' = reviewView
            /\ written' = [written EXCEPT ![calls[i].stage] = o.body]
            /\ UNCHANGED error
            /\ lastEvent' = [op |-> calls[i].op, from |-> view, call |-> calls[i],
                             upd |-> updates, outcome |-> "succeeded", response |-> o]

\* A continuation whose catch block also empties the record.
Settle_clearsOnFailure(i, o, updates, reviewView, defaultMessage) ==
    /\ calls' = RemoveAt(calls, i)
    /\ KeepWhileMounted(IF Throws(o) THEN "error" ELSE reviewView)
    /\ IF Throws(o)
       THEN /\ error' = Message(o, defaultMessage)
            /\ view' = "error"
            /\ sessionData' = ResetSessionData
            /\ UNCHANGED written
            /\ lastEvent' = [op |-> calls[i].op, from |-> view, call |-> calls[i],
                             upd |-> EmptyObj, outcome |-> "failed", response |-> o]
       ELSE /\ sessionData' = updateSession(sessionData, updates)
            /\ view' = reviewView
            /\ written' = [written EXCEPT ![calls[i].stage] = o.body]
            /\ UNCHANGED error
            /\ lastEvent' = [op |-> calls[i].op, from |-> view, call |-> calls[i],
                             upd |-> updates, outcome |-> "succeeded", response |-> o]

\* A continuation whose catch block does nothing when fetch itself rejected:
\* the view stays the processing view with no call left to end it.
Settle_swallowsRejection(i, o, updates, reviewView, defaultMessage) ==
    /\ calls' = RemoveAt(calls, i)
    /\ KeepWhileMounted(IF o.kind = "network" THEN view
                        ELSE IF Throws(o) THEN "error" ELSE reviewView)
    /\ IF o.kind = "network"
       THEN /\ UNCHANGED <<view, error, sessionData, written>>
            /\ lastEvent' = [op |-> calls[i].op, from |-> view, call |-> calls[i],
                             upd |-> EmptyObj, outcome |-> "failed", response |-> o]
       ELSE IF Throws(o)
       THEN /\ error' = Message(o, defaultMessage)
            /\ view' = "error"
            /\ UNCHANGED <<sessionData, written>>
            /\ lastEvent' = [op |-> calls[i].op, from |-> view, call |-> calls[i],
                             upd |-> EmptyObj, outcome |-> "failed", response |-> o]
       ELSE /\ sessionData' = updateSession(sessionData, updates)
            /\ view' = reviewView
            /\ written' = [written EXCEPT ![calls[i].stage] = o.body]
            /\ UNCHANGED error
            /\ lastEvent' = [op |-> calls[i].op, from |-> view, call |-> calls[i],
                             upd |-> updates, outcome |-> "succeeded", response |-> o]

\* The continuation of a handler after `await fetch(...)`: the catch block on
\* a failure, updateSession + setView on success.
Settle(i, o, updates, reviewView, defaultMessage) ==
    /\ calls' = RemoveAt(calls, i)
    /\ KeepWhileMounted(IF Throws(o) THEN "error" ELSE reviewView)
    /\ IF Throws(o)
       THEN /\ error' = Message(o, defaultMessage)
            /\ view' = "error"
            /\ UNCHANGED <<sessionData, written>>
            /\ lastEvent' = [op |-> calls[i].op, from |-> view, call |-> calls[i],
                             upd |-> EmptyObj, outcome |-> "failed", response |-> o]
       ELSE /\ sessionData' = updateSession(sessionData, updates)
            /\ view' = reviewView
            /\ written' = [written EXCEPT ![calls[i].stage] = o.body]
            /\ UNCHANGED error
            /\ lastEvent' = [op |-> calls[i].op, from |-> view, call |-> calls[i],
                             upd |-> updates, outcome |-> "succeeded", response |-> o]

-----------------------------------------------------------------------------
(* App: the handlers *)

\* The files a user may pick or drop, each the sequence of the pieces of its
\* name: with an allowed extension, in lower and in upper case, with another
\* extension, with an allowed one that is not the last, with no dot at all,
\* and ending in a dot.
Files ==
    {<<"entrevista", ".", "mp3">>, <<"entrevista", ".", "MP3">>,
     <<"notas", ".", "txt">>, <<"notas", ".", "mp3", ".", "txt">>,
     <<"mp3">>, <<"entrevista", ".">>}

\* handleUpload(file), called by UploadPage's submit button.
handleUpload(file) ==
    /\ ShowsUploadPage
    /\ view' = "modulo1"
    /\ error' = ""
    /\ Fetch("handleUpload", "1", [file |-> file], sessionData, EmptyObj)
    /\ KeepWhileMounted("modulo1")
    /\ UNCHANGED <<sessionData, written>>

handleUploadSettled(i, o) ==
    /\ calls[i].op = "handleUpload"
    /\ Settle(i, o, [relatorio_descoberta |-> Get(o.body, "relatorio_descoberta")],
              "review1", "Erro no Módulo 1")

\* handleTextUpload(text), called by UploadPage's submit button.
handleTextUpload(text) ==
    /\ ShowsUploadPage
    /\ view' = "modulo1"
    /\ error' = ""
    /\ Fetch("handleTextUpload", "1", [transcricao |-> text], sessionData, EmptyObj)
    /\ KeepWhileMounted("modulo1")
    /\ UNCHANGED <<sessionData, written>>

\* The continuation of handleTextUpload with a default message of its own.
handleTextUploadSettled_ownMessage(i, o) ==
    /\ calls[i].op = "handleTextUpload"
    /\ Settle(i, o, [relatorio_descoberta |-> Get(o.body, "relatorio_descoberta")],
              "review1", "Erro no Módulo 1 (texto)")

handleTextUploadSettled(i, o) ==
    /\ calls[i].op = "handleTextUpload"
    /\ Settle(i, o, [relatorio_descoberta |-> Get(o.body, "relatorio_descoberta")],
              "review1", "Erro no Módulo 1")

\* handleModulo2 also offered by the error view (a retry button).
handleModulo2_retryFromError ==
    /\ (ShowsResultPage(view) /\ view = "review1") \/ ShowsError
    /\ view' = "modulo2"
    /\ error' = ""
    /\ Fetch("handleModulo2", "2",
             [relatorio_descoberta |-> sessionData.relatorio_descoberta],
             sessionData, EmptyObj)
    /\ KeepWhileMounted("modulo2")
    /\ UNCHANGED <<sessionData, written>>

\* handleModulo2, the approve button of ResultPage's review1.
handleModulo2 ==
    /\ ShowsResultPage(view) /\ view = "review1"
    /\ view' = "modulo2"
    /\ error' = ""
    /\ Fetch("handleModulo2", "2",
             [relatorio_descoberta |-> sessionData.relatorio_descoberta],
             sessionData, EmptyObj)
    /\ KeepWhileMounted("modulo2")
    /\ UNCHANGED <<sessionData, written>>

\* handleModulo2's continuation with the wrong view literal: review2 is skipped.
handleModulo2Settled_skipsReview(i, o) ==
    /\ calls[i].op = "handleModulo2"
    /\ Settle(i, o,
              [bpmn_xml_as_is        |-> Get(o.body, "bpmn_xml_as_is"),
               bpmn_validation_as_is |-> Get(o.body, "bpmn_validation"),
               aviso_bizagi          |-> Get(o.body, "aviso_bizagi")],
              "review3a", "Erro no Módulo 2")

handleModulo2Settled(i, o) ==
    /\ calls[i].op = "handleModulo2"
    /\ Settle(i, o,
              [bpmn_xml_as_is        |-> Get(o.body, "bpmn_xml_as_is"),
               bpmn_validation_as_is |-> Get(o.body, "bpmn_validation"),
               aviso_bizagi          |-> Get(o.body, "aviso_bizagi")],
              "review2", "Erro no Módulo 2")

\* handleModulo3a also behind the approve button of review1 (the wrong
\* callback passed there): stage 2 could be skipped.
handleModulo3a_alsoAtReview1 ==
    /\ ShowsResultPage(view) /\ view \in {"review1", "review2"}
    /\ view' = "modulo3a"
    /\ error' = ""
    /\ Fetch("handleModulo3a", "3a",
             [relatorio_descoberta |-> sessionData.relatorio_descoberta,
              bpmn_xml_as_is       |-> sessionData.bpmn_xml_as_is],
             sessionData, EmptyObj)
    /\ KeepWhileMounted("modulo3a")
    /\ UNCHANGED <<sessionData, written>>

\* handleModulo3a, the approve button of ResultPage's review2.
handleModulo3a ==
    /\ ShowsResultPage(view) /\ view = "review2"
    /\ view' = "modulo3a"
    /\ error' = ""
    /\ Fetch("handleModulo3a", "3a",
             [relatorio_descoberta |-> sessionData.relatorio_descoberta,
              bpmn_xml_as_is       |-> sessionData.bpmn_xml_as_is],
             sessionData, EmptyObj)
    /\ KeepWhileMounted("modulo3a")
    /\ UNCHANGED <<sessionData, written>>

\* The continuation of handleModulo3a storing the analysis under the key of
\* the TO-BE diagram.
handleModulo3aSettled_wrongKey(i, o) ==
    /\ calls[i].op = "handleModulo3a"
    /\ Settle(i, o, [bpmn_xml_to_be |-> Get(o.body, "consultoria")],
              "review3a", "Erro no Módulo 3A")

handleModulo3aSettled(i, o) ==
    /\ calls[i].op = "handleModulo3a"
    /\ Settle(i, o, [consultoria |-> Get(o.body, "consultoria")],
              "review3a", "Erro no Módulo 3A")

\* ResultPage: onChange={(e) => setPropostas(e.target.value)} of review3a's textarea.
setPropostas(text) ==
    /\ ShowsResultPage(view) /\ view = "review3a"
    /\ propostas' = text
    /\ lastEvent' = [op |-> "setPropostas", from |-> view, call |-> NoCall,
                     upd |-> EmptyObj, outcome |-> "none", response |-> NoResponse]
    /\ uiEvent' = [op |-> "setPropostas", outcome |-> "none"]
    /\ UNCHANGED <<view, error, sessionData, calls, written, activeTab, downloads,
                   mode, upFile, upText>>
    /\ UNCHANGED chatVars

\* handleModulo3b without the updateSession of its prologue: the proposals
\* would reach the record only with a successful response.
handleModulo3b_noEarlyMerge ==
    /\ ShowsResultPage(view) /\ view = "review3a"
    /\ Trim(propostas) # <<>>
    /\ view' = "modulo3b"
    /\ error' = ""
    /\ Fetch("handleModulo3b", "3b",
             [relatorio_descoberta |-> sessionData.relatorio_descoberta,
              consultoria          |-> sessionData.consultoria,
              propostas_aprovadas  |-> propostas],
             sessionData, EmptyObj)
    /\ KeepWhileMounted("modulo3b")
    /\ UNCHANGED <<sessionData, written>>

\* handleModulo3b reading the proposals from the sessionData of its closure
\* (the value before the submission) instead of its argument.
handleModulo3b_sendsStored ==
    /\ ShowsResultPage(view) /\ view = "review3a"
    /\ Trim(propostas) # <<>>
    /\ view' = "modulo3b"
    /\ error' = ""
    /\ sessionData' = updateSession(sessionData, [propostas_aprovadas |-> propostas])
    /\ Fetch("handleModulo3b", "3b",
             [relatorio_descoberta |-> sessionData.relatorio_descoberta,
              consultoria          |-> sessionData.consultoria,
              propostas_aprovadas  |-> sessionData.propostas_aprovadas],
             sessionData', [propostas_aprovadas |-> propostas])
    /\ KeepWhileMounted("modulo3b")
    /\ UNCHANGED written

\* handleModulo3b behind a button that tests the text without trimming it
\* (disabled={!propostas}): a text of whitespace would be submitted.
handleModulo3b_untrimmedGuard ==
    /\ ShowsResultPage(view) /\ view = "review3a"
    /\ propostas # <<>>
    /\ view' = "modulo3b"
    /\ error' = ""
    /\ sessionData' = updateSession(sessionData, [propostas_aprovadas |-> propostas])
    /\ Fetch("handleModulo3b", "3b",
             [relatorio_descoberta |-> sessionData.relatorio_descoberta,
              consultoria          |-> sessionData.consultoria,
              propostas_aprovadas  |-> propostas],
             sessionData', [propostas_aprovadas |-> propostas])
    /\ KeepWhileMounted("modulo3b")
    /\ UNCHANGED written

\* handleModulo3b(propostas), the button of ResultPage's review3a
\* (disabled={!propostas.trim()}, onClick={() => onApproveModulo3b(propostas)}).
handleModulo3b ==
    /\ ShowsResultPage(view) /\ view = "review3a"
    /\ Trim(propostas) # <<>>
    /\ view' = "modulo3b"
    /\ error' = ""
    /\ sessionData' = updateSession(sessionData, [propostas_aprovadas |-> propostas])
    /\ Fetch("handleModulo3b", "3b",
             [relatorio_descoberta |-> sessionData.relatorio_descoberta,
              consultoria          |-> sessionData.consultoria,
              propostas_aprovadas  |-> propostas],
             sessionData', [propostas_aprovadas |-> propostas])
    /\ KeepWhileMounted("modulo3b")
    /\ UNCHANGED written

\* The continuation of handleModulo3b with the validation stored under the
\* key stage 2 uses (bpmn_validation_as_is).
handleModulo3bSettled_overwritesAsIs(i, o) ==
    /\ calls[i].op = "handleModulo3b"
    /\ Settle(i, o,
              [bpmn_xml_to_be        |-> Get(o.body, "bpmn_xml_to_be"),
               bpmn_validation_as_is |-> Get(o.body, "bpmn_validation"),
               aviso_bizagi          |-> Get(o.body, "aviso_bizagi")],
              "review3b", "Erro no Módulo 3B")

\* The continuation of handleModulo3b keeping the notice already stored when
\* the response carries none (json.aviso_bizagi || sessionData.aviso_bizagi).
handleModulo3bSettled_keepsNotice(i, o) ==
    /\ calls[i].op = "handleModulo3b"
    /\ Settle(i, o,
              [bpmn_xml_to_be        |-> Get(o.body, "bpmn_xml_to_be"),
               bpmn_validation_to_be |-> Get(o.body, "bpmn_validation"),
               aviso_bizagi          |-> IF Truthy(Get(o.body, "aviso_bizagi"))
                                         THEN o.body.aviso_bizagi
                                         ELSE sessionData.aviso_bizagi],
              "review3b", "Erro no Módulo 3B")

handleModulo3bSettled(i, o) ==
    /\ calls[i].op = "handleModulo3b"
    /\ Settle(i, o,
              [bpmn_xml_to_be        |-> Get(o.body, "bpmn_xml_to_be"),
               bpmn_validation_to_be |-> Get(o.body, "bpmn_validation"),
               aviso_bizagi          |-> Get(o.body, "aviso_bizagi")],
              "review3b", "Erro no Módulo 3B")

\* handleModulo4 also offered in the final view (a button to produce the POP
\* again).
handleModulo4_alsoAtFinal ==
    /\ ShowsResultPage(view) /\ view \in {"review3b", "final"}
    /\ view' = "modulo4"
    /\ error' = ""
    /\ Fetch("handleModulo4", "4",
             [bpmn_xml_to_be       |-> sessionData.bpmn_xml_to_be,
              relatorio_descoberta |-> sessionData.relatorio_descoberta],
             sessionData, EmptyObj)
    /\ KeepWhileMounted("modulo4")
    /\ UNCHANGED <<sessionData, written>>

\* handleModulo4, the approve button of ResultPage's review3b.
handleModulo4 ==
    /\ ShowsResultPage(view) /\ view = "review3b"
    /\ view' = "modulo4"
    /\ error' = ""
    /\ Fetch("handleModulo4", "4",
             [bpmn_xml_to_be       |-> sessionData.bpmn_xml_to_be,
              relatorio_descoberta |-> sessionData.relatorio_descoberta],
             sessionData, EmptyObj)
    /\ KeepWhileMounted("modulo4")
    /\ UNCHANGED <<sessionData, written>>

handleModulo4Settled(i, o) ==
    /\ calls[i].op = "handleModulo4"
    /\ Settle(i, o, [pop_texto |-> Get(o.body, "pop_texto")],
              "final", "Erro no Módulo 4")

\* handleReset without its setError(''): the message of the failure stays.
handleReset_keepsError ==
    /\ ShowsResultPage(view) \/ ShowsError
    /\ view' = "upload"
    /\ sessionData' = ResetSessionData
    /\ KeepWhileMounted("upload")
    /\ written' = NoWritten
    /\ lastEvent' = [op |-> "handleReset", from |-> view, call |-> NoCall,
                     upd |-> EmptyObj, outcome |-> "none", response |-> NoResponse]
    /\ UNCHANGED <<calls, error>>

\* handleReset without its setSessionData: back to upload with the record of
\* the run just left.
handleReset_keepsRecord ==
    /\ ShowsResultPage(view) \/ ShowsError
    /\ view' = "upload"
    /\ error' = ""
    /\ KeepWhileMounted("upload")
    /\ written' = NoWritten
    /\ lastEvent' = [op |-> "handleReset", from |-> view, call |-> NoCall,
                     upd |-> EmptyObj, outcome |-> "none", response |-> NoResponse]
    /\ UNCHANGED <<calls, sessionData>>

\* handleReset: ResultPage's onReset buttons (Cancelar in each review view,
\* Novo Mapeamento in final) and the error view's Tentar Novamente.
handleReset ==
    /\ ShowsResultPage(view) \/ ShowsError
    /\ view' = "upload"
    /\ error' = ""
    /\ sessionData' = ResetSessionData
    /\ KeepWhileMounted("upload")
    /\ written' = NoWritten
    /\ lastEvent' = [op |-> "handleReset", from |-> view, call |-> NoCall,
                     upd |-> EmptyObj, outcome |-> "none", response |-> NoResponse]
    /\ UNCHANGED calls

-----------------------------------------------------------------------------
(* UploadPage *)

\* String.prototype.split('.'): the pieces of a name between its dots.
RECURSIVE Split(_)
Split(name) ==
    IF \A i \in 1..Len(name) : name[i] # "."
    THEN <<name>>
    ELSE LET i == CHOOSE j \in 1..Len(name) :
                      name[j] = "." /\ \A k \in 1..(j - 1) : name[k] # "."
         IN  <<SubSeq(name, 1, i - 1)>> \o Split(SubSeq(name, i + 1, Len(name)))

\* String.prototype.toLowerCase, piece by piece.
toLowerCase(piece) ==
    [i \in 1..Len(piece) |-> IF piece[i] = "MP3" THEN "mp3" ELSE piece[i]]

\* const allowed = [...]
allowed == {"mp3", "wav", "ogg", "m4a", "webm", "flac", "aac"}

\* What an <input type="file"> or a drop hands to handleFiles: no file or one.
FileLists == {<<>>} \cup {<<f>> : f \in Files}

\* An event inside UploadPage, which leaves App and ResultPage alone.
UploadPageStep(op, outcome) ==
    /\ ShowsUploadPage
    /\ uiEvent' = [op |-> op, outcome |-> outcome]
    /\ UNCHANGED <<view, error, sessionData, propostas, activeTab, downloads, calls,
                   written, lastEvent>>
    /\ UNCHANGED chatVars

\* onClick={() => setMode('audio')} and onClick={() => setMode('text')}
setMode(m) ==
    /\ UploadPageStep("setMode", "none")
    /\ mode' = m
    /\ UNCHANGED <<upFile, upText>>

\* handleFiles(files), from the dropzone's input and drop (audio mode).
handleFiles(files) ==
    /\ mode = "audio"
    /\ UNCHANGED <<mode, upText>>
    /\ IF files = <<>>
       THEN UploadPageStep("handleFiles", "ignored") /\ UNCHANGED upFile
       ELSE LET f == files[1]
                ext == toLowerCase(Split(f)[Len(Split(f))])
            IN  IF ~(\E a \in allowed : ext = <<a>>)
                THEN UploadPageStep("handleFiles", "alerted") /\ UNCHANGED upFile
                ELSE UploadPageStep("handleFiles", "selected") /\ upFile' = f

\* removeFile, the button shown next to the selected file.
removeFile ==
    /\ mode = "audio" /\ upFile # NoFile
    /\ UploadPageStep("removeFile", "none")
    /\ upFile' = NoFile
    /\ UNCHANGED <<mode, upText>>

\* onChange={(e) => setText(e.target.value)} of the textarea (text mode).
setText(t) ==
    /\ mode # "audio"
    /\ UploadPageStep("setText", "none")
    /\ upText' = t
    /\ UNCHANGED <<mode, upFile>>

\* const canSubmit = mode === 'audio' ? !!file : text.trim().length > 0
canSubmit == IF mode = "audio" THEN upFile # NoFile ELSE Len(Trim(upText)) > 0

\* handleSubmit calling onProcessText whenever the mode is not audio, with
\* no test of the text, behind a button that is never disabled.
handleSubmit_untested ==
    IF mode = "audio" /\ upFile # NoFile
    THEN handleUpload(upFile)
    ELSE mode = "text" /\ handleTextUpload(upText)

\* handleSubmit, the button "Iniciar Mapeamento com IA" (disabled={!canSubmit}).
handleSubmit ==
    /\ ShowsUploadPage
    /\ canSubmit
    /\ IF mode = "audio" /\ upFile # NoFile
       THEN handleUpload(upFile)
       ELSE mode = "text" /\ Trim(upText) # <<>> /\ handleTextUpload(upText)

-----------------------------------------------------------------------------
(* ResultPage: tabs and downloads *)

\* Most download fetches in flight at once.
MaxDownloads == 1

\* The ids of TABS.
Tabs == {"bpmn_to_be", "bpmn_as_is", "relatorio", "consultoria", "pop"}

\* onClick={() => setActiveTab(tab.id)}, the tab buttons of the final view.
setActiveTab(tab) ==
    /\ ShowsResultPage(view) /\ view = "final"
    /\ activeTab' = tab
    /\ uiEvent' = [op |-> "setActiveTab", outcome |-> "none"]
    /\ UNCHANGED <<view, error, sessionData, propostas, downloads, calls, written,
                   lastEvent, mode, upFile, upText>>
    /\ UNCHANGED chatVars

\* The "Baixar .BPMN" buttons the current view renders, with the arguments
\* each passes to downloadBpmn.
BpmnButtons ==
    IF ~ShowsResultPage(view) THEN {}
    ELSE IF view = "review2"
        THEN {[xml |-> sessionData.bpmn_xml_as_is, filename |-> "processo_as_is"]}
    ELSE IF view = "review3b"
        THEN {[xml |-> sessionData.bpmn_xml_to_be, filename |-> "processo_to_be"]}
    ELSE IF view = "final"
        THEN {[xml |-> sessionData.bpmn_xml_to_be, filename |-> "processo_to_be_tjmg"],
              [xml |-> sessionData.bpmn_xml_as_is, filename |-> "processo_as_is_tjmg"]}
    ELSE {}

\* How a download fetch ends: a response of any status, whose blob is handed
\* to the browser (res.ok is not looked at), or a rejection of fetch or blob().
DownloadOutcomes == {"ok", "notOk", "rejected"}

\* downloadBpmn(xml, filename) up to its `await fetch`.
downloadBpmn(xml, filename) ==
    /\ ShowsResultPage(view)
    /\ Len(downloads) < MaxDownloads
    /\ downloads' = Append(downloads,
                           [op |-> "downloadBpmn",
                            body |-> [bpmn_xml |-> xml, filename |-> filename]])
    /\ uiEvent' = [op |-> "downloadBpmn", outcome |-> "issued"]
    /\ UNCHANGED <<view, error, sessionData, propostas, activeTab, calls, written,
                   lastEvent, mode, upFile, upText>>
    /\ UNCHANGED chatVars

\* downloadPdf up to its `await fetch`, the "Baixar PDF (POP)" button of the
\* final view.
downloadPdf ==
    /\ ShowsResultPage(view) /\ view = "final"
    /\ Len(downloads) < MaxDownloads
    /\ downloads' = Append(downloads,
                           [op |-> "downloadPdf",
                            body |-> [pop_texto |-> sessionData.pop_texto,
                                      processo_nome |-> "Processo Mapeado TJMG"]])
    /\ uiEvent' = [op |-> "downloadPdf", outcome |-> "issued"]
    /\ UNCHANGED <<view, error, sessionData, propostas, activeTab, calls, written,
                   lastEvent, mode, upFile, upText>>
    /\ UNCHANGED chatVars

\* A download handler whose catch block gives up the session: it calls
\* onReset after the alert.
DownloadSettled_resetsOnError(i, o) ==
    /\ downloads' = RemoveAt(downloads, i)
    /\ uiEvent' = [op |-> downloads[i].op,
                   outcome |-> IF o = "rejected" THEN "alerted" ELSE "clicked"]
    /\ UNCHANGED chatVars
    /\ IF o = "rejected"
       THEN /\ view' = "upload"
            /\ error' = ""
            /\ sessionData' = ResetSessionData
            /\ propostas' = <<>>
            /\ activeTab' = "bpmn_to_be"
            /\ written' = NoWritten
            /\ UNCHANGED <<calls, lastEvent, mode, upFile, upText>>
       ELSE UNCHANGED <<view, error, sessionData, propostas, activeTab, calls,
                        written, lastEvent, mode, upFile, upText>>

\* The continuation of a download handler after `await fetch(...)`: the blob
\* goes to the browser through a.click(), or the catch block shows an alert.
DownloadSettled(i, o) ==
    /\ downloads' = RemoveAt(downloads, i)
    /\ uiEvent' = [op |-> downloads[i].op,
                   outcome |-> IF o = "rejected" THEN "alerted" ELSE "clicked"]
    /\ UNCHANGED <<view, error, sessionData, propostas, activeTab, calls, written,
                   lastEvent, mode, upFile, upText>>
    /\ UNCHANGED chatVars

downloadBpmnSettled(i, o) ==
    /\ downloads[i].op = "downloadBpmn"
    /\ DownloadSettled(i, o)

downloadPdfSettled(i, o) ==
    /\ downloads[i].op = "downloadPdf"
    /\ DownloadSettled(i, o)

-----------------------------------------------------------------------------
(* The program *)

Init ==
    /\ view = "upload"
    /\ error = ""
    /\ sessionData = InitialSessionData
    /\ mode = "audio"
    /\ upFile = NoFile
    /\ upText = <<>>
    /\ propostas = <<>>
    /\ activeTab = "bpmn_to_be"
    /\ downloads = <<>>
    /\ uiEvent = NoUi
    /\ messages = <<>>
    /\ input = <<>>
    /\ loading = FALSE
    /\ isOpen = FALSE
    /\ chatCalls = <<>>
    /\ calls = <<>>
    /\ written = NoWritten
    /\ lastEvent = [op |-> "mount", from |-> "upload", call |-> NoCall,
                    upd |-> EmptyObj, outcome |-> "none", response |-> NoResponse]

Next ==
    \/ \E m \in {"audio", "text"} : setMode(m)
    \/ \E files \in FileLists : handleFiles(files)
    \/ removeFile
    \/ \E t \in Texts : setText(t)
    \/ handleSubmit
    \/ handleModulo2
    \/ handleModulo3a
    \/ \E text \in Texts : setPropostas(text)
    \/ handleModulo3b
    \/ handleModulo4
    \/ handleReset
    \/ \E tab \in Tabs : setActiveTab(tab)
    \/ \E b \in BpmnButtons : downloadBpmn(b.xml, b.filename)
    \/ downloadPdf
    \/ \E i \in 1..Len(downloads) : \E o \in DownloadOutcomes : downloadBpmnSettled(i, o)
    \/ \E i \in 1..Len(downloads) : \E o \in DownloadOutcomes : downloadPdfSettled(i, o)
    \/ \E i \in 1..Len(calls) : \E o \in Outcomes(calls[i].stage) : handleUploadSettled(i, o)
    \/ \E i \in 1..Len(calls) : \E o \in Outcomes(calls[i].stage) : handleTextUploadSettled(i, o)
    \/ \E i \in 1..Len(calls) : \E o \in Outcomes(calls[i].stage) : handleModulo2Settled(i, o)
    \/ \E i \in 1..Len(calls) : \E o \in Outcomes(calls[i].stage) : handleModulo3aSettled(i, o)
    \/ \E i \in 1..Len(calls) : \E o \in Outcomes(calls[i].stage) : handleModulo3bSettled(i, o)
    \/ \E i \in 1..Len(calls) : \E o \in Outcomes(calls[i].stage) : handleModulo4Settled(i, o)

Spec == Init /\ [][Next]_vars

-----------------------------------------------------------------------------
(* The program, with every fetch of a stage settling *)

\* The promise of a stage's fetch settles and its handler goes on.
ResponseArrives ==
    \E i \in 1..Len(calls) : \E o \in Outcomes(calls[i].stage) :
        \/ handleUploadSettled(i, o)
        \/ handleTextUploadSettled(i, o)
        \/ handleModulo2Settled(i, o)
        \/ handleModulo3aSettled(i, o)
        \/ handleModulo3bSettled(i, o)
        \/ handleModulo4Settled(i, o)

\* Spec, where a fetch in flight does not stay in flight forever.
SpecLive == Init /\ [][Next]_vars /\ WF_vars(ResponseArrives)

-----------------------------------------------------------------------------
(* updateSession on its own: any sequence of partial updates *)

\* Most keys a partial update carries.
MaxMergeKeys == 2

\* The value a partial update gives a field.
MergeValue(f) ==
    CASE f = "propostas_aprovadas" -> <<"a">>
      [] f = "relatorio_descoberta" -> "X"
      [] f = "bpmn_xml_as_is" -> "Y"
      [] OTHER -> "Z"

\* The partial updates: every choice of 1..MaxMergeKeys fields.
MergeUpdates ==
    {[f \in K |-> MergeValue(f)] :
        K \in {S \in SUBSET Fields : Cardinality(S) \in 1..MaxMergeKeys}}

\* One call updateSession(updates).
MergeStep(updates) ==
    /\ sessionData' = updateSession(sessionData, updates)
    /\ lastEvent' = [op |-> "updateSession", from |-> view, call |-> NoCall,
                     upd |-> updates, outcome |-> "none", response |-> NoResponse]
    /\ UNCHANGED <<view, error, mode, upFile, upText, propostas, activeTab,
                   downloads, calls, written, uiEvent>>
    /\ UNCHANGED chatVars

NextMerge == \E updates \in MergeUpdates : MergeStep(updates)

SpecMerge == Init /\ [][NextMerge]_vars

-----------------------------------------------------------------------------
(* ChatPanel on its own *)

\* Most messages a user sends in one conversation.
MaxTurns == 2

\* The `context` prop.
Context == "relatorio"

\* How the fetch of /api/chat ends.
ChatOutcomes ==
    {[kind |-> "ok", parsed |-> TRUE, body |-> [reply |-> "resposta"]],
     [kind |-> "ok", parsed |-> TRUE, body |-> EmptyObj],
     [kind |-> "ok", parsed |-> FALSE, body |-> EmptyObj],
     [kind |-> "notOk", parsed |-> TRUE, body |-> [detail |-> "limite excedido"]],
     [kind |-> "notOk", parsed |-> TRUE, body |-> EmptyObj],
     [kind |-> "notOk", parsed |-> FALSE, body |-> EmptyObj],
     [kind |-> "network", parsed |-> FALSE, body |-> EmptyObj]}

\* An event inside ChatPanel, which leaves the rest of the page alone.
ChatPanelStep(op, outcome) ==
    /\ uiEvent' = [op |-> op, outcome |-> outcome]
    /\ UNCHANGED appVars

\* onClick={() => setIsOpen(true)} of the closed panel's button, and
\* onClick={() => setIsOpen(false)} of the open panel's.
setIsOpen(b) ==
    /\ isOpen = ~b
    /\ ChatPanelStep("setIsOpen", "none")
    /\ isOpen' = b
    /\ UNCHANGED <<messages, input, loading, chatCalls>>

\* setInput: the textarea (disabled={loading}) and the three suggestion
\* buttons, shown while there is no message.
setInput(text) ==
    /\ isOpen
    /\ \/ ~loading
       \/ Len(messages) = 0 /\ Trim(text) # <<>>
    /\ ChatPanelStep("setInput", "none")
    /\ input' = text
    /\ UNCHANGED <<messages, loading, isOpen, chatCalls>>

\* handleSend without its setLoading(true).
handleSend_forgetsLoading ==
    /\ isOpen /\ ~loading
    /\ LET userMsg == Trim(input)
           newMessages == Append(messages, [role |-> "user", content |-> userMsg])
       IN  IF userMsg = <<>> \/ loading
           THEN /\ ChatPanelStep("handleSend", "ignored")
                /\ UNCHANGED chatVars
           ELSE /\ Len(messages) < 2 * MaxTurns
                /\ ChatPanelStep("handleSend", "sent")
                /\ messages' = newMessages
                /\ input' = <<>>
                /\ chatCalls' = Append(chatCalls,
                                       [context |-> Context, messages |-> newMessages])
                /\ UNCHANGED <<isOpen, loading>>

\* handleSend up to its `await fetch`: from the send button
\* (disabled={!input.trim() || loading}) or from Enter in the textarea
\* (disabled={loading}).
handleSend ==
    /\ isOpen /\ ~loading
    /\ LET userMsg == Trim(input)
           newMessages == Append(messages, [role |-> "user", content |-> userMsg])
       IN  IF userMsg = <<>> \/ loading
           THEN /\ ChatPanelStep("handleSend", "ignored")
                /\ UNCHANGED chatVars
           ELSE /\ Len(messages) < 2 * MaxTurns
                /\ ChatPanelStep("handleSend", "sent")
                /\ messages' = newMessages
                /\ input' = <<>>
                /\ loading' = TRUE
                /\ chatCalls' = Append(chatCalls,
                                       [context |-> Context, messages |-> newMessages])
                /\ UNCHANGED isOpen

\* The content of the assistant message the continuation appends: data.reply,
\* or "Erro: " (after a cross mark, left out here) and the text of the error
\* caught.
AssistantContent(o) ==
    IF o.kind = "network" THEN <<"Erro: ", NetworkMessage>>
    ELSE IF o.kind = "notOk"
        THEN <<"Erro: ",
               IF o.parsed /\ Truthy(Get(o.body, "detail"))
               THEN o.body.detail ELSE "Erro no chat">>
    ELSE IF ~o.parsed THEN <<"Erro: ", JsonParseMessage>>
    ELSE <<Get(o.body, "reply")>>

\* A continuation whose catch block shows the error alone, in place of the
\* conversation.
handleSendSettled_errorAlone(i, o) ==
    /\ ChatPanelStep("handleSend", IF o.kind = "ok" /\ o.parsed THEN "replied" ELSE "failed")
    /\ chatCalls' = RemoveAt(chatCalls, i)
    /\ messages' = IF o.kind = "ok" /\ o.parsed
                   THEN Append(chatCalls[i].messages,
                               [role |-> "assistant", content |-> AssistantContent(o)])
                   ELSE <<[role |-> "assistant", content |-> AssistantContent(o)]>>
    /\ loading' = FALSE
    /\ UNCHANGED <<input, isOpen>>

\* The continuation of handleSend after `await fetch(...)`: the reply or the
\* error is appended to newMessages, and finally setLoading(false).
handleSendSettled(i, o) ==
    /\ ChatPanelStep("handleSend", IF o.kind = "ok" /\ o.parsed THEN "replied" ELSE "failed")
    /\ chatCalls' = RemoveAt(chatCalls, i)
    /\ messages' = Append(chatCalls[i].messages,
                          [role |-> "assistant", content |-> AssistantContent(o)])
    /\ loading' = FALSE
    /\ UNCHANGED <<input, isOpen>>

NextChat ==
    \/ \E b \in BOOLEAN : setIsOpen(b)
    \/ \E text \in Texts : setInput(text)
    \/ handleSend
    \/ \E i \in 1..Len(chatCalls) : \E o \in ChatOutcomes : handleSendSettled(i, o)

SpecChat == Init /\ [][NextChat]_vars

-----------------------------------------------------------------------------
(* Properties *)

\* A step of App's handlers, as opposed to one inside ResultPage (typing,
\* switching the tab, a download).
StepOfApp == uiEvent'.op = "none"

\* Position of a view in the flow (0 for error, which is not part of it).
FlowIndex(v) == IF \E i \in 1..Len(Flow) : Flow[i] = v
                THEN CHOOSE i \in 1..Len(Flow) : Flow[i] = v ELSE 0

\* C1: every step taken by a submit, an approve or a stage success moves the
\* view from one step of the flow to the very next one, so a run made of
\* submit, four approvals and five successes visits upload, modulo1, review1,
\* modulo2, review2, modulo3a, review3a, modulo3b, review3b, modulo4, final
\* in that order, with no step skipped or repeated.
C1_FlowInOrder ==
    [][(StepOfApp /\ lastEvent'.outcome \in {"issued", "succeeded"})
          => /\ FlowIndex(view) \in 1..(Len(Flow) - 1)
             /\ view' = Flow[FlowIndex(view) + 1]]_vars

\* C1 witness: a run that reached final through the success of stage 4.
C1_Witness ==
    /\ view = "final"
    /\ lastEvent.outcome = "succeeded"
    /\ lastEvent.from = "modulo4"

\* The stage a processing view names.
StageOfView(v) ==
    CASE v = "modulo1" -> "1" [] v = "modulo2" -> "2" [] v = "modulo3a" -> "3a"
      [] v = "modulo3b" -> "3b" [] v = "modulo4" -> "4" [] OTHER -> "none"

\* A step that issues a stage call: a submit or an approve.
IssuesCall ==
    \/ \E file \in Files : handleUpload(file)
    \/ \E text \in Texts : handleTextUpload(text)
    \/ handleModulo2
    \/ handleModulo3a
    \/ handleModulo3b
    \/ handleModulo4

\* C3: at most one stage call is in flight; a call is in flight exactly while
\* the view is a processing view, it is the call of the stage the view names,
\* and no submit or approve can be taken there.
C3_OneCallInFlight ==
    /\ Len(calls) <= 1
    /\ (calls # <<>>) <=> isProcessing
    /\ isProcessing => /\ calls[1].stage = StageOfView(view)
                       /\ ~ENABLED IssuesCall

\* C3 witness: stage 3b is running, with its call in flight.
C3_Witness ==
    /\ view = "modulo3b"
    /\ Len(calls) = 1
    /\ calls[1].stage = "3b"

\* C4: when a stage call fails, the view is error, a message is stored, and
\* the record is what it was when the call was issued.
C4_FailureKeepsRecord ==
    lastEvent.outcome = "failed"
        => /\ view = "error"
           /\ error # ""
           /\ sessionData = lastEvent.call.snap

\* C4 witness: stage 3b failed after three stages had filled the record.
C4_Witness ==
    /\ lastEvent.outcome = "failed"
    /\ lastEvent.call.stage = "3b"
    /\ sessionData.consultoria = "c1"
    /\ sessionData.bpmn_xml_as_is = "x1"

\* C5: a reset leaves view = upload, no error message, and the canonical empty
\* record: every text field empty and both validation fields null.
C5_ResetYieldsEmpty ==
    lastEvent.op = "handleReset"
        => /\ view = "upload"
           /\ error = ""
           /\ sessionData = InitialSessionData
           /\ \A f \in Fields \ {"bpmn_validation_as_is", "bpmn_validation_to_be",
                                 "propostas_aprovadas"} : sessionData[f] = ""
           /\ sessionData.propostas_aprovadas = <<>>
           /\ sessionData.bpmn_validation_as_is = Null
           /\ sessionData.bpmn_validation_to_be = Null

\* C5 witness: a reset taken in the final view, where every field was set.
C5_Witness ==
    /\ lastEvent.op = "handleReset"
    /\ lastEvent.from = "final"

\* C6: updateSession(updates) leaves every field that is not a key of the
\* update at its previous value (so merging {bpmn_xml_as_is: Y} and then
\* {relatorio_descoberta: X} leaves both Y and X in the record).
C6_MergeKeepsOtherFields ==
    [][/\ DOMAIN sessionData' = Fields
       /\ \A f \in Fields \ DOMAIN lastEvent'.upd : sessionData'[f] = sessionData[f]
       /\ \A f \in DOMAIN lastEvent'.upd : sessionData'[f] = lastEvent'.upd[f]]_vars

\* C6 witness: {relatorio_descoberta: X} was merged into a record that
\* already held bpmn_xml_as_is = Y, and both are there.
C6_Witness ==
    /\ lastEvent.op = "updateSession"
    /\ DOMAIN lastEvent.upd = {"relatorio_descoberta"}
    /\ sessionData.relatorio_descoberta = "X"
    /\ sessionData.bpmn_xml_as_is = "Y"

\* C7: the proposal text P submitted at review3a is in the record while
\* stage 3b runs, before its response arrives, and is still there in the
\* state the response leads to, review3b or error.
C7_ProposalsKept ==
    /\ view = "modulo3b"
          => /\ Len(calls) = 1
             /\ Trim(calls[1].typed) # <<>>
             /\ sessionData.propostas_aprovadas = calls[1].typed
    /\ (lastEvent.call.stage = "3b" /\ lastEvent.outcome \in {"succeeded", "failed"})
          => /\ view = (IF lastEvent.outcome = "succeeded" THEN "review3b" ELSE "error")
             /\ sessionData.propostas_aprovadas = lastEvent.call.typed

\* C7 witness: stage 3b failed and the submitted text " a" is in the record.
C7_Witness ==
    /\ view = "error"
    /\ lastEvent.outcome = "failed"
    /\ lastEvent.call.stage = "3b"
    /\ lastEvent.call.typed = <<" ", "a">>
    /\ sessionData.propostas_aprovadas = <<" ", "a">>

\* A step by which handleModulo2, handleModulo3a or handleModulo4 sent its request.
Approved(op) == lastEvent.op = op /\ lastEvent.outcome = "issued"

\* C8 (the claim as stated): the requests of stages 2, 3a and 4 carry the
\* record's values at the time of approval, which are the values the earlier
\* stages of the same session returned, and none of them is empty.
C8_RequestsCarrySessionValues ==
    LET req == lastEvent.call.req
        rel == Get(written["1"], "relatorio_descoberta")
        asIs == Get(written["2"], "bpmn_xml_as_is")
        toBe == Get(written["3b"], "bpmn_xml_to_be")
    IN  /\ Approved("handleModulo2")
              => /\ req = [relatorio_descoberta |-> sessionData.relatorio_descoberta]
                 /\ req.relatorio_descoberta = rel /\ Truthy(rel)
        /\ Approved("handleModulo3a")
              => /\ req = [relatorio_descoberta |-> sessionData.relatorio_descoberta,
                           bpmn_xml_as_is |-> sessionData.bpmn_xml_as_is]
                 /\ req.relatorio_descoberta = rel /\ Truthy(rel)
                 /\ req.bpmn_xml_as_is = asIs /\ Truthy(asIs)
        /\ Approved("handleModulo4")
              => /\ req = [bpmn_xml_to_be |-> sessionData.bpmn_xml_to_be,
                           relatorio_descoberta |-> sessionData.relatorio_descoberta]
                 /\ req.relatorio_descoberta = rel /\ Truthy(rel)
                 /\ req.bpmn_xml_to_be = toBe /\ Truthy(toBe)

\* C9: the stage 3b request carries the text just submitted, together with
\* the relatorio_descoberta and consultoria the session holds, which are the
\* ones stages 1 and 3a returned in this session.
C9_Stage3bRequest ==
    Approved("handleModulo3b")
        => LET req == lastEvent.call.req
           IN  /\ DOMAIN req = {"relatorio_descoberta", "consultoria",
                                "propostas_aprovadas"}
               /\ req.propostas_aprovadas = lastEvent.call.typed
               /\ Trim(req.propostas_aprovadas) # <<>>
               /\ req.relatorio_descoberta = sessionData.relatorio_descoberta
               /\ req.relatorio_descoberta = Get(written["1"], "relatorio_descoberta")
               /\ req.consultoria = sessionData.consultoria
               /\ req.consultoria = Get(written["3a"], "consultoria")

\* C9 witness: the text "a " was submitted in a session whose stage 1
\* returned r2 and whose stage 3a returned c1.
C9_Witness ==
    /\ Approved("handleModulo3b")
    /\ lastEvent.call.typed = <<"a", " ">>
    /\ lastEvent.call.req.propostas_aprovadas = <<"a", " ">>
    /\ lastEvent.call.req.relatorio_descoberta = "r2"
    /\ lastEvent.call.req.consultoria = "c1"

\* C10: in the error view no stage call is in flight and the only step of
\* App is handleReset, which leads to upload; no submit or approve issues a
\* call, and until the reset the view, the message and the record stay.
C10_FailedOnlyResets ==
    [][view = "error"
          => /\ calls = <<>>
             /\ calls' = <<>>
             /\ IF StepOfApp
                THEN lastEvent'.op = "handleReset" /\ view' = "upload"
                ELSE UNCHANGED <<view, error, sessionData>>]_vars

\* C10 witness: a reset taken in the error view.
C10_Witness ==
    /\ lastEvent.op = "handleReset"
    /\ lastEvent.from = "error"
    /\ view = "upload"

\* The reason C2 has no case in this program: handleReset is never taken while
\* a call is in flight (no reset control is rendered in a processing view), so
\* no response ever arrives after a reset issued during its call.
ResetNeverInFlight ==
    [][(StepOfApp /\ lastEvent'.op = "handleReset")
          => calls = <<>> /\ ~isProcessing]_vars

-----------------------------------------------------------------------------
(* Failure messages *)

\* The default message each stage's handler passes to `new Error`.
DefaultMessageOf(stage) ==
    CASE stage = "1"  -> "Erro no Módulo 1"
      [] stage = "2"  -> "Erro no Módulo 2"
      [] stage = "3a" -> "Erro no Módulo 3A"
      [] stage = "3b" -> "Erro no Módulo 3B"
      [] stage = "4"  -> "Erro no Módulo 4"

\* The last step handled a non-success response of the service.
FailedOnNotOk ==
    /\ lastEvent.outcome = "failed"
    /\ lastEvent.response.kind = "notOk"

\* C11: after a non-success response (a body with a detail, a body without
\* one, or a body that does not parse) the message shown in the error view is
\* the body's detail text when there is one and the stage's default message
\* otherwise.
C11_FailedMessage ==
    FailedOnNotOk =>
        /\ view = "error"
        /\ error = IF /\ lastEvent.response.parsed
                      /\ Truthy(Get(lastEvent.response.body, "detail"))
                   THEN lastEvent.response.body.detail
                   ELSE DefaultMessageOf(lastEvent.call.stage)

-----------------------------------------------------------------------------
(* Blank proposals *)

\* C12: stage 3b never runs on a blank proposal text. While the text typed at
\* review3a is empty or whitespace the approve button does nothing; every
\* stage 3b request in flight, and the view modulo3b, carry a text that is
\* not blank.
C12_NoBlankProposals ==
    /\ (view = "review3a" /\ Trim(propostas) = <<>>) => ~ENABLED handleModulo3b
    /\ \A i \in 1..Len(calls) :
           calls[i].stage = "3b" => Trim(calls[i].req.propostas_aprovadas) # <<>>
    /\ view = "modulo3b" =>
           /\ lastEvent.op = "handleModulo3b"
           /\ Trim(lastEvent.call.req.propostas_aprovadas) # <<>>

\* Only whitespace is typed at review3a: the approve button is disabled.
C12_Witness ==
    /\ view = "review3a"
    /\ propostas = <<" ", " ">>
    /\ ~ENABLED handleModulo3b

-----------------------------------------------------------------------------
(* One request per user action *)

\* C13: a step that enters a processing view sends exactly one request, the
\* one of the stage the view names, and nothing else sends a request: the
\* step that handles the response, successful or not, removes the call and
\* sends none, and every other step leaves the calls alone.
C13_OneCallPerEntry ==
    [][ /\ (view' \in ProcessingViews /\ view' # view) =>
               /\ lastEvent'.outcome = "issued"
               /\ calls' = Append(calls, lastEvent'.call)
               /\ lastEvent'.call.stage = StageOfView(view')
        /\ (StepOfApp /\ lastEvent'.outcome = "issued") =>
               /\ view' \in ProcessingViews
               /\ view' # view
        /\ (StepOfApp /\ lastEvent'.outcome \in {"succeeded", "failed"}) =>
               /\ calls = <<lastEvent'.call>>
               /\ calls' = <<>>
               /\ view' \notin ProcessingViews
        /\ (~StepOfApp \/ lastEvent'.outcome \notin {"issued", "succeeded", "failed"}) =>
               calls' = calls
      ]_vars

\* C13 witness: the call of stage 3a has failed and no call is in flight.
C13_Witness ==
    /\ view = "error"
    /\ lastEvent.outcome = "failed"
    /\ lastEvent.call.stage = "3a"
    /\ calls = <<>>

-----------------------------------------------------------------------------
(* The step indicator *)

\* The step the indicator is to show for each view of the flow.
StepOfView(v) ==
    CASE v \in {"modulo1", "review1"} -> 0
      [] v \in {"modulo2", "review2"} -> 1
      [] v \in {"modulo3a", "review3a", "modulo3b", "review3b"} -> 2
      [] v \in {"modulo4", "final"} -> 3
      [] OTHER -> -1

\* C14: getActiveStep returns 0 for modulo1 and review1, 1 for modulo2 and
\* review2, 2 for modulo3a, review3a, modulo3b and review3b, 3 for modulo4 and
\* final, and along a run of submits, approves and successes its value never
\* decreases.
C14_ActiveStep ==
    /\ [](getActiveStep(view) = StepOfView(view))
    /\ [][ (StepOfApp /\ lastEvent'.outcome \in {"issued", "succeeded"}) =>
               getActiveStep(view') >= getActiveStep(view) ]_vars

\* C14 witness: the TO-BE diagram is under review, the indicator at its third
\* step, reached from the running view of stage 3b.
C14_Witness ==
    /\ view = "review3b"
    /\ lastEvent.from = "modulo3b"
    /\ getActiveStep(lastEvent.from) = 2
    /\ getActiveStep(view) = 2

-----------------------------------------------------------------------------
(* ResultPage leaves the session alone *)

\* The steps UploadPage takes on its own.
UploadPageOps == {"setMode", "handleFiles", "removeFile", "setText"}

\* The handlers of App that write the record.
SessionWriters ==
    {"handleUpload", "handleTextUpload", "handleModulo2", "handleModulo3a",
     "handleModulo3b", "handleModulo4", "handleReset"}

\* C15: a step inside ResultPage (typing the proposals, switching the tab,
\* starting a BPMN or PDF download, a download ending well or with an alert)
\* changes neither the record nor the view, the error message or the stage
\* calls; the record changes only in a step of a submit, approve or reset
\* handler.
C15_PresentationKeepsSession ==
    [][ /\ ~StepOfApp =>
               /\ \/ uiEvent'.op \in {"setPropostas", "setActiveTab",
                                      "downloadBpmn", "downloadPdf"}
                  \/ view = "upload" /\ uiEvent'.op \in UploadPageOps
               /\ UNCHANGED <<view, error, sessionData, calls, written>>
        /\ sessionData' # sessionData =>
               /\ StepOfApp
               /\ lastEvent'.op \in SessionWriters
      ]_vars

\* C15 witness: in the final view, on the POP tab, the PDF download has just
\* failed with an alert and the record still holds the POP.
C15_Witness ==
    /\ view = "final"
    /\ activeTab = "pop"
    /\ uiEvent = [op |-> "downloadPdf", outcome |-> "alerted"]
    /\ sessionData.pop_texto = "p1"
    /\ sessionData.bpmn_xml_to_be = "y1"

-----------------------------------------------------------------------------
(* What the record holds at each point of a session *)

\* How far the session has got in the flow: the position of the view, and in
\* the error view that of the processing view whose call failed.
Position ==
    IF view = "error"
    THEN CHOOSE i \in 1..Len(Flow) : StageOfView(Flow[i]) = lastEvent.call.stage
    ELSE FlowIndex(view)

\* C16 (the claim as stated): a review state is entered only with its text
\* artifact: from review1 on relatorio_descoberta is not empty, from review3a
\* on consultoria is not empty, and in final pop_texto is not empty.
C16_ReviewHasArtifact ==
    /\ Position >= FlowIndex("review1") => Truthy(sessionData.relatorio_descoberta)
    /\ Position >= FlowIndex("review3a") => Truthy(sessionData.consultoria)
    /\ Position >= FlowIndex("final") => Truthy(sessionData.pop_texto)

\* C17: the output fields of a stage keep their empty values until the stage
\* has succeeded: before review2, bpmn_xml_as_is is empty and
\* bpmn_validation_as_is null; before review3b, bpmn_xml_to_be is empty and
\* bpmn_validation_to_be null; before final, pop_texto is empty.
C17_OutputsEmptyBefore ==
    /\ Position < FlowIndex("review2") =>
           /\ sessionData.bpmn_xml_as_is = ""
           /\ sessionData.bpmn_validation_as_is = Null
    /\ Position < FlowIndex("review3b") =>
           /\ sessionData.bpmn_xml_to_be = ""
           /\ sessionData.bpmn_validation_to_be = Null
    /\ Position < FlowIndex("final") =>
           sessionData.pop_texto = ""

\* C17 witness: stage 3b has failed: the AS-IS diagram and its validation are
\* there, the outputs of stages 3b and 4 are empty.
C17_Witness ==
    /\ view = "error"
    /\ lastEvent.call.stage = "3b"
    /\ sessionData.bpmn_xml_as_is = "x1"
    /\ sessionData.bpmn_validation_as_is = "v1"
    /\ sessionData.bpmn_xml_to_be = ""
    /\ sessionData.bpmn_validation_to_be = Null
    /\ sessionData.pop_texto = ""

-----------------------------------------------------------------------------
(* Forward only *)

\* C18: a processing view is entered only from the view just before it in the
\* flow (modulo1 from upload, the others from the review of the preceding
\* stage), and until a reset every change of view is one step forward in the
\* flow or the failure of the running stage: the position never decreases, no
\* stage is skipped and none runs twice.
C18_ForwardOnly ==
    [][ /\ (view' \in ProcessingViews /\ view' # view) =>
               /\ view \in ReviewViews \cup {"upload"}
               /\ FlowIndex(view') = FlowIndex(view) + 1
               /\ lastEvent'.call.stage = StageOfView(view')
        /\ (view' # view /\ ~(StepOfApp /\ lastEvent'.op = "handleReset")) =>
               \/ view \in ProcessingViews /\ view' = "error"
               \/ view # "error" /\ FlowIndex(view') = FlowIndex(view) + 1
      ]_vars

\* C18 witness: stage 4 is running, entered from review3b.
C18_Witness ==
    /\ view = "modulo4"
    /\ lastEvent.from = "review3b"
    /\ lastEvent.outcome = "issued"
    /\ Len(calls) = 1

-----------------------------------------------------------------------------
(* What a stage writes *)

\* The fields of the record that belong to each stage's response.
OwnFields(stage) ==
    CASE stage = "1"  -> {"relatorio_descoberta"}
      [] stage = "2"  -> {"bpmn_xml_as_is", "bpmn_validation_as_is", "aviso_bizagi"}
      [] stage = "3a" -> {"consultoria"}
      [] stage = "3b" -> {"bpmn_xml_to_be", "bpmn_validation_to_be", "aviso_bizagi"}
      [] stage = "4"  -> {"pop_texto"}

\* C19: the step that handles a successful response of a stage changes only
\* that stage's own fields and leaves every other field at its value; the
\* step that sends a request changes no field, except propostas_aprovadas
\* when the request is that of stage 3b.
C19_SuccessWritesOwnFields ==
    [][ /\ (StepOfApp /\ lastEvent'.outcome = "succeeded") =>
               \A f \in Fields \ OwnFields(lastEvent'.call.stage) :
                   sessionData'[f] = sessionData[f]
        /\ (StepOfApp /\ lastEvent'.outcome = "issued") =>
               \A f \in Fields :
                   (f = "propostas_aprovadas" /\ lastEvent'.call.stage = "3b")
                       \/ sessionData'[f] = sessionData[f]
      ]_vars

\* C19 witness: stage 3b has succeeded, its validation is stored next to the
\* one of stage 2, and the fields of stages 1, 3a and of the submission are
\* as they were.
C19_Witness ==
    /\ lastEvent.outcome = "succeeded"
    /\ lastEvent.call.stage = "3b"
    /\ sessionData.bpmn_validation_to_be = "v2"
    /\ sessionData.bpmn_validation_as_is = "v1"
    /\ sessionData.bpmn_xml_as_is = "x1"
    /\ sessionData = [lastEvent.call.snap EXCEPT
                          !.bpmn_xml_to_be = "y1",
                          !.bpmn_validation_to_be = "v2",
                          !.aviso_bizagi = sessionData.aviso_bizagi]

-----------------------------------------------------------------------------
(* The notice *)

\* C20: once stage 3b has succeeded, aviso_bizagi is what the response of
\* stage 3b carried, undefined when it carried no notice, and the notice
\* stage 2 had stored is gone.
C20_NoticeOfStage3b ==
    LET of2  == Get(written["2"], "aviso_bizagi")
        of3b == Get(written["3b"], "aviso_bizagi")
    IN  /\ (lastEvent.outcome = "succeeded" /\ lastEvent.call.stage = "3b") =>
               /\ view = "review3b"
               /\ written["3b"] = lastEvent.response.body
               /\ lastEvent.call.snap.aviso_bizagi = of2
        /\ Position >= FlowIndex("review3b") =>
               /\ sessionData.aviso_bizagi = of3b
               /\ of2 # of3b => sessionData.aviso_bizagi # of2

\* C20 witness: stage 2 had stored the notice w1, the response of stage 3b
\* carried none, and the record holds no notice.
C20_Witness ==
    /\ view = "review3b"
    /\ Get(written["2"], "aviso_bizagi") = "w1"
    /\ lastEvent.call.snap.aviso_bizagi = "w1"
    /\ "aviso_bizagi" \notin DOMAIN lastEvent.response.body
    /\ sessionData.aviso_bizagi = Undef

-----------------------------------------------------------------------------
(* Only a reset empties the record *)

\* The step is handleReset.
IsReset == StepOfApp /\ lastEvent'.op = "handleReset"

\* C21: the record goes back to the empty record only by handleReset. No
\* other step (submit, approve, success, failure) changes a field that holds
\* something other than its initial value, except aviso_bizagi when stage 3b
\* succeeds.
C21_OnlyResetClears ==
    [][ ~IsReset =>
            /\ (sessionData # InitialSessionData) => (sessionData' # InitialSessionData)
            /\ \A f \in Fields :
                   sessionData[f] # InitialSessionData[f] =>
                       \/ sessionData'[f] = sessionData[f]
                       \/ /\ f = "aviso_bizagi"
                          /\ lastEvent'.call.stage = "3b"
                          /\ lastEvent'.outcome = "succeeded"
      ]_vars

\* C21 witness: stage 4 has failed and the record still holds what stages 1
\* to 3b stored.
C21_Witness ==
    /\ view = "error"
    /\ lastEvent.outcome = "failed"
    /\ lastEvent.call.stage = "4"
    /\ sessionData.relatorio_descoberta = "r1"
    /\ sessionData.bpmn_xml_as_is = "x1"
    /\ sessionData.consultoria = "c1"
    /\ sessionData.propostas_aprovadas = <<"a">>
    /\ sessionData.bpmn_xml_to_be = "y1"

-----------------------------------------------------------------------------
(* A running stage ends *)

\* C22: when every fetch settles, a processing view is eventually left, and
\* the step that leaves it is the end of its stage's call and leads to the
\* review view of that stage (final after modulo4) or to error, never to any
\* other view.
C22_RunningEnds ==
    /\ isProcessing ~> ~isProcessing
    /\ [][ (view \in ProcessingViews /\ view' # view) =>
               /\ view' \in {Flow[FlowIndex(view) + 1], "error"}
               /\ lastEvent'.outcome \in {"succeeded", "failed"}
               /\ lastEvent'.call.stage = StageOfView(view) ]_vars

\* C22 witness: modulo4 was left for final by the success of stage 4, and
\* nothing is in flight.
C22_Witness ==
    /\ view = "final"
    /\ lastEvent.from = "modulo4"
    /\ lastEvent.outcome = "succeeded"
    /\ lastEvent.call.stage = "4"
    /\ downloads = <<>>
    /\ calls = <<>>

-----------------------------------------------------------------------------
(* The final view *)

\* C23: in the final view no call is in flight and none can be issued, reset
\* is offered, and a step either is handleReset, which leads to upload, or
\* leaves the view, the message, the record and the calls as they are.
C23_FinalIsTerminal ==
    [][ view = "final" =>
            /\ calls = <<>>
            /\ ~ENABLED IssuesCall
            /\ ENABLED handleReset
            /\ IF IsReset
               THEN view' = "upload" /\ calls' = <<>>
               ELSE UNCHANGED <<view, error, sessionData, calls, written>>
      ]_vars

\* C23 witness: still in the final view, with the whole record, after a BPMN
\* download and a change of tab.
C23_Witness ==
    /\ view = "final"
    /\ activeTab = "consultoria"
    /\ uiEvent = [op |-> "downloadBpmn", outcome |-> "clicked"]
    /\ sessionData.pop_texto = "p1"
    /\ sessionData.relatorio_descoberta = "r2"

-----------------------------------------------------------------------------
(* Audio and text submissions *)

\* View, message and record after stage 1 ended with outcome o, as a function
\* of the outcome and of the record at submission only.
AfterStage1(o, snap) ==
    IF Throws(o)
    THEN <<"error", Message(o, DefaultMessageOf("1")), snap>>
    ELSE <<"review1", "",
           [snap EXCEPT !.relatorio_descoberta = Get(o.body, "relatorio_descoberta")]>>

\* C24: handleUpload and handleTextUpload are the same event for the
\* pipeline. Both are taken in upload and lead to modulo1 with an empty
\* message and the record untouched; when stage 1 ends, the view, the message
\* and the record depend on the outcome alone, not on which of the two sent
\* the request; the requests differ (a file, or a transcricao).
C24_AudioAndTextAlike ==
    lastEvent.call.stage = "1" =>
        /\ lastEvent.op \in {"handleUpload", "handleTextUpload"}
        /\ lastEvent.from = (IF lastEvent.outcome = "issued" THEN "upload" ELSE "modulo1")
        /\ DOMAIN lastEvent.call.req =
               (IF lastEvent.op = "handleUpload" THEN {"file"} ELSE {"transcricao"})
        /\ lastEvent.call.snap = InitialSessionData
        /\ lastEvent.outcome = "issued" =>
               <<view, error, sessionData>> = <<"modulo1", "", lastEvent.call.snap>>
        /\ lastEvent.outcome \in {"succeeded", "failed"} =>
               <<view, error, sessionData>> =
                   AfterStage1(lastEvent.response, lastEvent.call.snap)

\* C24 witness: a text submission that stage 1 rejected without a detail.
C24_Witness ==
    /\ lastEvent.op = "handleTextUpload"
    /\ lastEvent.call.req.transcricao = <<"a", " ">>
    /\ lastEvent.outcome = "failed"
    /\ lastEvent.response.kind = "notOk"
    /\ lastEvent.response.body = EmptyObj
    /\ lastEvent.response.parsed
    /\ error = "Erro no Módulo 1"

-----------------------------------------------------------------------------
(* What is on screen *)

\* C25: every view shows exactly one thing: the upload page in upload, the
\* progress indicator in the five modulo views, with a label that is not
\* empty and is that view's own, the result page in the four review views
\* and in final, the error display in error.
C25_OneModeShown ==
    /\ Rendered = {CASE view = "upload" -> "upload"
                     [] view \in {"modulo1", "modulo2", "modulo3a", "modulo3b",
                                  "modulo4"} -> "progress"
                     [] view \in {"review1", "review2", "review3a", "review3b",
                                  "final"} -> "result"
                     [] view = "error" -> "error"}
    /\ Cardinality(Rendered) = 1
    /\ ShowsStepProgress =>
           /\ processingLabel(view) # ""
           /\ \A v \in ProcessingViews \ {view} :
                  processingLabel(v) # processingLabel(view)

\* C25 witness: stage 3b is running and the indicator carries its label.
C25_Witness ==
    /\ view = "modulo3b"
    /\ Rendered = {"progress"}
    /\ processingLabel(view) = "Gerando novo fluxo BPMN (TO-BE)..."

-----------------------------------------------------------------------------
(* The error message *)

\* C26: outside the error view the stored message is the empty string: every
\* submit, approve and reset clears it, and it is set only by the step that
\* leads to error.
C26_ErrorOnlyInFailed ==
    /\ view # "error" => error = ""
    /\ (lastEvent.outcome = "issued" \/ lastEvent.op = "handleReset") => error = ""
    /\ error # "" => lastEvent.outcome = "failed"

\* C26 witness: a reset taken in the error view, where a message was shown,
\* has left no message behind.
C26_Witness ==
    /\ lastEvent.op = "handleReset"
    /\ lastEvent.from = "error"
    /\ error = ""
    /\ sessionData = InitialSessionData

-----------------------------------------------------------------------------
(* Nothing of a previous run in upload *)

\* C27: whenever the view is upload the record is the empty record, no call
\* is in flight that could write into it, and the upload page is what is
\* shown.
C27_IdleIsEmpty ==
    view = "upload" =>
        /\ sessionData = InitialSessionData
        /\ calls = <<>>
        /\ ShowsUploadPage

\* C27 witness: back in upload from review2, after stages 1 and 2 had stored
\* their results, with a download of that run still in flight.
C27_Witness ==
    /\ view = "upload"
    /\ lastEvent.op = "handleReset"
    /\ lastEvent.from = "review2"
    /\ Len(downloads) = 1
    /\ downloads[1].body.bpmn_xml = "x1"
    /\ sessionData.bpmn_xml_as_is = ""

-----------------------------------------------------------------------------
(* What the upload page submits *)

\* The extension of a file name: what follows its last dot (the whole name
\* when it has no dot), in lower case.
ExtensionOf(name) ==
    LET dots == {i \in 1..Len(name) : name[i] = "."}
        from == IF dots = {} THEN 1
                ELSE 1 + CHOOSE i \in dots : \A j \in dots : j <= i
        tail == SubSeq(name, from, Len(name))
    IN  [i \in 1..Len(tail) |-> IF tail[i] = "MP3" THEN "mp3" ELSE tail[i]]

\* The extensions the upload page accepts.
AudioExtensions ==
    {<<"mp3">>, <<"wav">>, <<"ogg">>, <<"m4a">>, <<"webm">>, <<"flac">>, <<"aac">>}

\* C28: the selected file always has one of the extensions mp3, wav, ogg,
\* m4a, webm, flac, aac, and a rejected pick leaves the selection as it was;
\* handleUpload is called only in audio mode, with the selected file, and
\* handleTextUpload only in text mode, with the typed text, which is not
\* blank.
C28_UsablePayload ==
    /\ [](upFile # NoFile => ExtensionOf(upFile) \in AudioExtensions)
    /\ [][ /\ (uiEvent'.op = "handleFiles" /\ uiEvent'.outcome # "selected") =>
                  upFile' = upFile
           /\ (uiEvent'.op = "handleFiles" /\ uiEvent'.outcome = "selected") =>
                  /\ upFile' \in Files
                  /\ ExtensionOf(upFile') \in AudioExtensions
           /\ (StepOfApp /\ lastEvent'.op = "handleUpload"
                         /\ lastEvent'.outcome = "issued") =>
                  /\ mode = "audio"
                  /\ upFile # NoFile
                  /\ lastEvent'.call.req = [file |-> upFile]
           /\ (StepOfApp /\ lastEvent'.op = "handleTextUpload"
                         /\ lastEvent'.outcome = "issued") =>
                  /\ mode = "text"
                  /\ Trim(upText) # <<>>
                  /\ lastEvent'.call.req = [transcricao |-> upText]
         ]_vars

\* C28 witness: a .txt file has just been refused with an alert and the file
\* selected before it, entrevista.MP3, is still the selection.
C28_Witness ==
    /\ view = "upload"
    /\ mode = "audio"
    /\ uiEvent = [op |-> "handleFiles", outcome |-> "alerted"]
    /\ upFile = <<"entrevista", ".", "MP3">>
    /\ canSubmit

-----------------------------------------------------------------------------
(* ChatPanel: one request at a time *)

\* The step is handleSend with this outcome: "ignored", "sent", or the end
\* of its request, "replied" or "failed".
ChatStep(outcomes) ==
    /\ uiEvent' # uiEvent \/ chatVars' # chatVars
    /\ uiEvent'.op = "handleSend"
    /\ uiEvent'.outcome \in outcomes

\* C29: at most one chat request is in flight, and loading is true exactly
\* while one is. handleSend changes nothing when the trimmed input is empty or
\* loading is true; an accepted send sets loading and issues one request, and
\* only the end of that request sets loading back.
C29_OneChatRequest ==
    /\ [](/\ Len(chatCalls) <= 1
          /\ loading <=> chatCalls # <<>>)
    /\ [][ /\ ChatStep({"ignored"}) =>
                  /\ Trim(input) = <<>> \/ loading
                  /\ UNCHANGED chatVars
           /\ ChatStep({"sent"}) =>
                  /\ Trim(input) # <<>> /\ ~loading
                  /\ loading'
                  /\ chatCalls = <<>> /\ Len(chatCalls') = 1
           /\ ChatStep({"replied", "failed"}) =>
                  /\ loading /\ ~loading'
                  /\ Len(chatCalls) = 1 /\ chatCalls' = <<>>
           /\ (loading' # loading \/ chatCalls' # chatCalls) =>
                  ChatStep({"sent", "replied", "failed"})
         ]_vars

\* C29 witness: the second request is in flight, in a panel closed meanwhile.
C29_Witness ==
    /\ loading
    /\ ~isOpen
    /\ Len(chatCalls) = 1
    /\ Len(chatCalls[1].messages) = 3
    /\ input = <<>>

-----------------------------------------------------------------------------
(* ChatPanel: the conversation *)

\* C30: an accepted send appends one user message, the trimmed input; the end
\* of its request, whatever it is (a reply, a non-success response, a
\* transport error), appends one assistant message right after it and sets
\* loading to false. No step removes or reorders a message, so the list
\* alternates user, assistant.
C30_MessagesAlternate ==
    /\ [](/\ \A i \in 1..Len(messages) :
                 messages[i].role = IF i % 2 = 1 THEN "user" ELSE "assistant"
          /\ loading <=> (Len(messages) % 2 = 1))
    /\ [][ /\ ChatStep({"sent"}) =>
                  /\ messages' = Append(messages, [role |-> "user",
                                                   content |-> Trim(input)])
                  /\ chatCalls'[1].messages = messages'
           /\ ChatStep({"replied", "failed"}) =>
                  /\ Len(messages') = Len(messages) + 1
                  /\ SubSeq(messages', 1, Len(messages)) = messages
                  /\ messages'[Len(messages')].role = "assistant"
                  /\ messages[Len(messages)].role = "user"
                  /\ ~loading'
           /\ ~ChatStep({"sent", "replied", "failed"}) => messages' = messages
         ]_vars

\* C30 witness: two turns, the first ended by a non-success response with no
\* detail, the second by a reply.
C30_Witness ==
    /\ ~loading
    /\ Len(messages) = 4
    /\ messages[1] = [role |-> "user", content |-> <<"a">>]
    /\ messages[2] = [role |-> "assistant", content |-> <<"Erro: ", "Erro no chat">>]
    /\ messages[3].role = "user"
    /\ messages[4] = [role |-> "assistant", content |-> <<"resposta">>]

====
